---- MODULE Spec2Model ----
(***************************************************************************)
(* Model of scripts/daily_cam_report.py: one run of the daily QA report.   *)
(* The script is a straight-line pipeline at module level:                 *)
(*   configuration (os.environ) -> two Jira searches -> one Zephyr Scale   *)
(*   listing -> Counter tally -> HTML body -> EmailMessage -> SMTP session. *)
(* Text is modelled as a sequence of tokens (a token is a string), so that *)
(* concatenation is \o and escaping is a map over the tokens.              *)
(***************************************************************************)
EXTENDS Integers, Sequences, FiniteSets, TLC

VARIABLES
    env,            \* os.environ: a function from the names that are set to strings
    today_utc,      \* datetime.utcnow().date(), line 36
    pc,             \* the stage of the script the run is at, or ended at
    error,          \* the uncaught exception that ended the run, or "None"
    cfg,            \* the module-level configuration names, lines 12-33
    net,            \* network requests issued so far, in order
    http,           \* what each HTTP request met (connection, status), in order
    zephyr_data,    \* resp.json() of the execution listing, line 75
    defects_today,  \* line 130
    open_blockers,  \* line 134
    executions,     \* line 141
    status_counts,  \* line 142
    html_body,      \* line 146
    msg,            \* the EmailMessage, lines 181-187
    session,        \* the SMTP connection: "none", "open" or "closed"
    opened,         \* how many times a mail session was opened
    sent            \* whether send_message delivered the message

vars == <<env, today_utc, pc, error, cfg, net, http, zephyr_data, defects_today,
          open_blockers, executions, status_counts, html_body, msg, session,
          opened, sent>>

(***************************************************************************)
(* Bounds of the model.                                                    *)
(***************************************************************************)
\* at most this many required variables are set to the empty string
MaxEmpty == 1
\* longest issue list a Jira response carries in a full run
MaxIssues == 1
\* longest execution list a Zephyr response carries in a full run
MaxExecutions == 1
\* longest issue list handed to the renderer on its own
MaxRows == 2
\* longest execution list handed to the aggregator on its own
MaxTally == 3

(***************************************************************************)
(* Small helpers on sequences.                                             *)
(***************************************************************************)
SeqsUpTo(S, n) == UNION {[1..k -> S] : k \in 0..n}

Range(s) == {s[i] : i \in DOMAIN s}

RECURSIVE Concat(_)
Concat(ss) == IF ss = <<>> THEN <<>> ELSE Head(ss) \o Concat(Tail(ss))

(***************************************************************************)
(* Configuration, lines 12-38.                                             *)
(***************************************************************************)
Required == {"JIRA_BASE", "JIRA_EMAIL", "JIRA_API_TOKEN", "ZEPHYR_SCALE_TOKEN",
             "SMTP_HOST", "SMTP_USER", "SMTP_PASS", "MAIL_TO"}

Optional == {"PROJECT_KEY", "SMTP_PORT", "MAIL_FROM"}

\* the environment reads of the script, in source order
ConfigReads == <<"JIRA_BASE", "JIRA_EMAIL", "JIRA_API_TOKEN", "PROJECT_KEY",
                 "ZEPHYR_SCALE_TOKEN", "SMTP_HOST", "SMTP_PORT", "SMTP_USER",
                 "SMTP_PASS", "MAIL_TO", "MAIL_FROM">>

\* a non-empty value for each variable
EnvValue == [JIRA_BASE |-> "https://jira.test", JIRA_EMAIL |-> "qa@jira.test",
             JIRA_API_TOKEN |-> "jira-token", ZEPHYR_SCALE_TOKEN |-> "zephyr-token",
             SMTP_HOST |-> "smtp.test", SMTP_USER |-> "qa@mail.test",
             SMTP_PASS |-> "app-password", MAIL_TO |-> "a@x.com, b@y.com",
             MAIL_FROM |-> "reports@mail.test", PROJECT_KEY |-> "XYZ",
             SMTP_PORT |-> "2525"]

\* values SMTP_PORT is set to: one that int() accepts and one that it rejects
Ports == {"2525", "smtp"}

Dates == {"2024-02-29", "2024-12-31"}

\* the environments of a run: any set of the variables below is set, some of
\* the required ones to the empty string; MAIL_FROM is left unset, so that
\* the sender is SMTP_USER
Envs ==
    {[n \in S |-> IF n \in E THEN ""
                  ELSE IF n = "SMTP_PORT" THEN p ELSE EnvValue[n]] :
        S \in SUBSET (Required \cup {"PROJECT_KEY", "SMTP_PORT"}),
        E \in {X \in SUBSET Required : Cardinality(X) <= MaxEmpty},
        p \in Ports}

\* int(): the decimal strings the model uses
IsInt(s) == s \in {"587", "2525"}

int(s) == IF s = "587" THEN 587 ELSE 2525

\* a lookup that never raises, as os.environ.get(name, "") would
environ_getitem_never_raises(e, n) == FALSE

\* os.environ[name]: KeyError when name is not set
environ_getitem_raises(e, n) == n \notin DOMAIN e

\* os.environ.get(name, default)
environ_get(e, n, default) == IF n \in DOMAIN e THEN e[n] ELSE default

\* the reads with MAIL_TO taken as optional
ReadErrorMailToOptional(e, n) ==
    IF n \in Required \ {"MAIL_TO"}
    THEN IF n \notin DOMAIN e THEN "KeyError" ELSE "None"
    ELSE IF n = "SMTP_PORT" /\ ~IsInt(environ_get(e, n, "587"))
         THEN "ValueError" ELSE "None"

\* the exception the read of `n` raises, "None" when it succeeds
ReadError(e, n) ==
    IF n \in Required
    THEN IF environ_getitem_raises(e, n) THEN "KeyError" ELSE "None"
    ELSE IF n = "SMTP_PORT" /\ ~IsInt(environ_get(e, n, "587"))
         THEN "ValueError" ELSE "None"

\* the first exception raised by lines 12-33, "None" when all reads succeed
ConfigError(e) ==
    LET bad == {i \in DOMAIN ConfigReads : ReadError(e, ConfigReads[i]) # "None"}
    IN IF bad = {} THEN "None"
       ELSE ReadError(e, ConfigReads[CHOOSE i \in bad : \A j \in bad : i <= j])

NoConfig == [n \in {} |-> ""]

\* the value os.environ[name] returns once it has not raised
environ_getitem(e, n) == environ_get(e, n, "")

Config(e) ==
    [JIRA_BASE   |-> environ_getitem(e, "JIRA_BASE"),
     JIRA_EMAIL  |-> environ_getitem(e, "JIRA_EMAIL"),
     JIRA_TOKEN  |-> environ_getitem(e, "JIRA_API_TOKEN"),
     PROJECT_KEY |-> environ_get(e, "PROJECT_KEY", "CAM"),
     Z_TOKEN     |-> environ_getitem(e, "ZEPHYR_SCALE_TOKEN"),
     SMTP_HOST   |-> environ_getitem(e, "SMTP_HOST"),
     SMTP_PORT   |-> int(environ_get(e, "SMTP_PORT", "587")),
     SMTP_USER   |-> environ_getitem(e, "SMTP_USER"),
     SMTP_PASS   |-> environ_getitem(e, "SMTP_PASS"),
     MAIL_TO     |-> environ_getitem(e, "MAIL_TO"),
     MAIL_FROM   |-> environ_get(e, "MAIL_FROM", environ_getitem(e, "SMTP_USER"))]

start_iso == <<today_utc, "T00:00:00Z">>

end_iso == <<today_utc, "T23:59:59Z">>

(***************************************************************************)
(* JSON values of the responses.                                           *)
(* A value is a record [t, s, has]: t is "null", "str" or "obj"; for a     *)
(* string s is its content; for an object, has says whether it holds the   *)
(* one member the script reads from it (name / displayName) and s is that  *)
(* member's text.  Free text is a sequence of tokens, a status label is an *)
(* atomic string.                                                          *)
(***************************************************************************)
JNull == [t |-> "null", s |-> <<>>, has |-> FALSE]

JText(toks) == [t |-> "str", s |-> toks, has |-> FALSE]

JObj(has, toks) == [t |-> "obj", s |-> toks, has |-> has]

SNull == [t |-> "null", s |-> ""]

SStr(x) == [t |-> "str", s |-> x]

\* Python truthiness of a status value: None and "" are falsy
Truthy(v) == v.t = "str" /\ v.s # ""

\* Python truthiness of a field value: None, "" and {} are falsy
TruthyField(v) == IF v.t = "obj" THEN v.has ELSE v.t = "str" /\ v.s # <<>>

\* dict.get(k, default) on a mapping modelled as a function
dict_get(d, k, default) == IF k \in DOMAIN d THEN d[k] ELSE default

\* a function result: the value returned or the exception raised
Ok(v) == [exc |-> "None", val |-> v]

Raise(e) == [exc |-> e, val |-> <<>>]

(***************************************************************************)
(* Renderer helpers, lines 80-111.                                         *)
(***************************************************************************)
\* the em dash character U+2014 of lines 90, 149 and 182
EmDash == "U+2014"

\* str.replace on tokenised text
replace(s, old, new) == [i \in DOMAIN s |-> IF s[i] = old THEN new ELSE s[i]]

html_link(href, text) == <<"<a href='">> \o href \o <<"'>">> \o text \o <<"</a>">>

\* v.get(member, default) where v was read from the issue: only a dict has .get
get_raises(v) == v.t # "obj"

member_get(v, default) == IF v.has THEN v.s ELSE default

\* (f.get("summary") or "").replace("<", "&lt;"), line 87
summary_raises(f) ==
    LET v == dict_get(f, "summary", JNull)
    IN TruthyField(v) /\ v.t # "str"

summary_cell(f) ==
    LET v == dict_get(f, "summary", JNull)
    IN replace(IF TruthyField(v) THEN v.s ELSE <<>>, "<", "&lt;")

\* f.get(name, {}).get(member, default), lines 88-90
field_raises(f, name) == get_raises(dict_get(f, name, JObj(FALSE, <<>>)))

field_cell(f, name, default) ==
    member_get(dict_get(f, name, JObj(FALSE, <<>>)), default)

jira_row(JIRA_BASE, issue) ==
    LET f == issue.fields
        key == issue.key
    IN IF \/ summary_raises(f)
          \/ field_raises(f, "priority")
          \/ field_raises(f, "status")
          \/ field_raises(f, "assignee")
       THEN Raise("AttributeError")
       ELSE Ok(<<html_link(<<JIRA_BASE, "/browse/", key>>, <<key>>),
                 summary_cell(f),
                 field_cell(f, "priority", <<>>),
                 field_cell(f, "status", <<>>),
                 field_cell(f, "assignee", <<EmDash>>)>>)

\* [jira_row(i) for i in issues], lines 162 and 166
jira_rows(JIRA_BASE, issues) ==
    LET rs == [i \in DOMAIN issues |-> jira_row(JIRA_BASE, issues[i])]
    IN IF \E i \in DOMAIN rs : rs[i].exc # "None"
       THEN Raise("AttributeError")
       ELSE Ok([i \in DOMAIN rs |-> rs[i].val])

TableOpen == "<table border='1' cellspacing='0' cellpadding='6'>"

\* a renderer that leaves the table out when there are no rows
to_table_skip_empty(rows, headers) ==
    LET th == Concat([i \in DOMAIN headers |-> <<"<th>", headers[i], "</th>">>])
        tds(row) == Concat([j \in DOMAIN row |-> <<"<td>">> \o row[j] \o <<"</td>">>])
        tr == Concat([i \in DOMAIN rows |-> <<"<tr>">> \o tds(rows[i]) \o <<"</tr>">>])
    IN IF rows = <<>> THEN <<>>
       ELSE <<TableOpen>>
            \o <<"<thead><tr>">> \o th \o <<"</tr></thead>">>
            \o <<"<tbody>">> \o tr \o <<"</tbody>">>
            \o <<"</table>">>

to_table(rows, headers) ==
    LET th == Concat([i \in DOMAIN headers |-> <<"<th>", headers[i], "</th>">>])
        tds(row) == Concat([j \in DOMAIN row |-> <<"<td>">> \o row[j] \o <<"</td>">>])
        tr == Concat([i \in DOMAIN rows |-> <<"<tr>">> \o tds(rows[i]) \o <<"</tr>">>])
    IN <<TableOpen>>
       \o <<"<thead><tr>">> \o th \o <<"</tr></thead>">>
       \o <<"<tbody>">> \o tr \o <<"</tbody>">>
       \o <<"</table>">>

IssueHeaders == <<"Key", "Summary", "Priority", "Status", "Assignee">>

(***************************************************************************)
(* Execution listing and tally, lines 75-77 and 142.                       *)
(***************************************************************************)
\* resp.json(): a JSON array, or a JSON object with the given member names;
\* elems is the array, or the value of the object's "executions" member
JArray(elems) == [kind |-> "array", keys |-> {}, elems |-> elems]

JDict(keys, elems) == [kind |-> "object", keys |-> keys, elems |-> elems]

\* data.get("executions", data), line 76: a list has no .get
normalize_executions(data) ==
    IF data.kind = "array" THEN Raise("AttributeError")
    ELSE IF "executions" \in data.keys THEN Ok(JArray(data.elems))
    ELSE Ok(data)

\* len(executions), line 153
len(x) == IF x.kind = "array" THEN Len(x.elems) ELSE Cardinality(x.keys)

\* the label without the fallback: e.get("status")
status_label_raw(e) == dict_get(e, "status", SNull).s

\* e.get("status") or "Unknown", line 142
status_label(e) ==
    LET v == dict_get(e, "status", SNull)
    IN IF Truthy(v) THEN v.s ELSE "Unknown"

EmptyCounter == [k \in {} |-> 0]

\* a tally that records each label once instead of counting it
CounterDistinct(labels) == [k \in Range(labels) |-> 1]

\* collections.Counter over a sequence of labels
RECURSIVE Counter(_)
Counter(labels) ==
    IF labels = <<>> THEN EmptyCounter
    ELSE LET c == Counter(SubSeq(labels, 1, Len(labels) - 1))
             k == labels[Len(labels)]
         IN IF k \in DOMAIN c THEN [c EXCEPT ![k] = @ + 1]
            ELSE [x \in DOMAIN c \cup {k} |-> IF x = k THEN 1 ELSE c[x]]

\* Counter((e.get("status") or "Unknown") for e in executions), line 142:
\* iterating a dict yields its keys, which are strings and have no .get
tally(x) ==
    IF x.kind = "array"
    THEN Ok(Counter([i \in DOMAIN x.elems |-> status_label(x.elems[i])]))
    ELSE IF x.keys = {} THEN Ok(EmptyCounter)
    ELSE Raise("AttributeError")

\* status_counts.get(label, 0), lines 154-158
counts_get(c, label) == IF label \in DOMAIN c THEN c[label] ELSE 0

(***************************************************************************)
(* HTTP clients, lines 43-77.                                              *)
(* A reply is what the remote side does with one request: conn = FALSE is  *)
(* a network failure (no response), otherwise status and body are the      *)
(* response.                                                               *)
(***************************************************************************)
\* requests refuses a URL without a scheme (MissingSchema) before sending it:
\* f"{JIRA_BASE}/rest/api/3/search" with an empty JIRA_BASE, line 45
url_rejected(base) == base = ""

\* a client that does not look at the status
raise_for_status_never(status) == FALSE

\* resp.raise_for_status(), lines 52 and 74: raises on 4xx and 5xx
raise_for_status(status) == status >= 400 /\ status < 600

\* the exception of the HTTP exchange itself, "None" when a response passed
\* raise_for_status
http_error(reply) ==
    IF ~reply.conn THEN "ConnectionError"
    ELSE IF raise_for_status(reply.status) THEN "HTTPError"
    ELSE "None"

jira_search(JIRA_BASE, reply) ==
    IF url_rejected(JIRA_BASE) THEN Raise("MissingSchema")
    ELSE IF http_error(reply) # "None" THEN Raise(http_error(reply))
    ELSE Ok(dict_get(reply.body, "issues", <<>>))

zephyr_get_test_executions(reply) ==
    IF http_error(reply) # "None" THEN Raise(http_error(reply))
    ELSE normalize_executions(reply.body)

(***************************************************************************)
(* Inputs of a full run.                                                   *)
(***************************************************************************)
Issue(key, summary, assignee) ==
    [key |-> key,
     fields |-> [summary |-> summary,
                 priority |-> JObj(TRUE, <<"High">>),
                 status |-> JObj(TRUE, <<"Open">>),
                 assignee |-> assignee]]

\* the same, from a response that leaves the assignee member out
IssueNoAssignee(key, summary) ==
    [key |-> key,
     fields |-> [summary |-> summary,
                 priority |-> JObj(TRUE, <<"High">>),
                 status |-> JObj(TRUE, <<"Open">>)]]

\* an assigned issue and an unassigned one (Jira sends "assignee": null)
PipelineIssues ==
    {Issue("XYZ-1", JText(<<"a", "<", "b">>), JObj(TRUE, <<"Ann">>)),
     Issue("XYZ-2", JText(<<"c">>), JNull)}

NoBody == [k \in {} |-> <<>>]

JiraBodies ==
    {NoBody} \cup {[k \in {"issues"} |-> s] : s \in SeqsUpTo(PipelineIssues, MaxIssues)}

JiraReplies ==
    {[conn |-> FALSE, status |-> 0, body |-> NoBody],
     [conn |-> TRUE, status |-> 503, body |-> NoBody]}
    \cup {[conn |-> TRUE, status |-> 200, body |-> b] : b \in JiraBodies}

Execution(v) == [k \in {"status"} |-> v]

ExecutionNoStatus == [k \in {} |-> SNull]

PipelineExecutions == {Execution(SStr("Pass")), Execution(SNull)}

\* the two documented shapes, and objects without an "executions" member
ZephyrBodies ==
    {JArray(s) : s \in SeqsUpTo(PipelineExecutions, MaxExecutions)}
    \cup {JDict({"executions"}, s) : s \in SeqsUpTo(PipelineExecutions, MaxExecutions)}
    \cup {JDict({}, <<>>), JDict({"values"}, <<>>)}

ZephyrReplies ==
    {[conn |-> FALSE, status |-> 0, body |-> JDict({}, <<>>)],
     [conn |-> TRUE, status |-> 401, body |-> JDict({}, <<>>)]}
    \cup {[conn |-> TRUE, status |-> 200, body |-> b] : b \in ZephyrBodies}

(***************************************************************************)
(* The run.                                                                *)
(***************************************************************************)
NoText == <<>>

\* the run is at `stage` and no exception has ended it; a run that an
\* exception ended stays at the stage that raised it
At(stage) == pc = stage /\ error = "None"

Init ==
    /\ env \in Envs
    /\ today_utc \in Dates
    /\ pc = "config"
    /\ error = "None"
    /\ cfg = NoConfig
    /\ net = <<>>
    /\ http = <<>>
    /\ zephyr_data = JDict({}, <<>>)
    /\ defects_today = <<>>
    /\ open_blockers = <<>>
    /\ executions = JArray(<<>>)
    /\ status_counts = EmptyCounter
    /\ html_body = NoText
    /\ msg = NoText
    /\ session = "none"
    /\ opened = 0
    /\ sent = FALSE

\* lines 12-38
LoadConfig ==
    /\ At("config")
    /\ LET err == ConfigError(env)
       IN /\ error' = err
          /\ pc' = IF err = "None" THEN "defects" ELSE pc
          /\ cfg' = IF err = "None" THEN Config(env) ELSE cfg
    /\ UNCHANGED <<env, today_utc, net, http, zephyr_data, defects_today,
                   open_blockers, executions, status_counts, html_body, msg,
                   session, opened, sent>>

\* the log entry of one HTTP exchange
Exchange(reply) == [conn |-> reply.conn, status |-> reply.status]

\* lines 130-133
SearchDefectsToday ==
    /\ At("defects")
    /\ \E reply \in JiraReplies :
         LET r == jira_search(cfg.JIRA_BASE, reply)
         IN /\ net' = IF url_rejected(cfg.JIRA_BASE) THEN net ELSE Append(net, "jira")
            /\ http' = IF url_rejected(cfg.JIRA_BASE) THEN http
                       ELSE Append(http, Exchange(reply))
            /\ error' = r.exc
            /\ pc' = IF r.exc = "None" THEN "blockers" ELSE pc
            /\ defects_today' = IF r.exc = "None" THEN r.val ELSE defects_today
    /\ UNCHANGED <<env, today_utc, cfg, zephyr_data, open_blockers, executions,
                   status_counts, html_body, msg, session, opened, sent>>

\* lines 134-137
SearchOpenBlockers ==
    /\ At("blockers")
    /\ \E reply \in JiraReplies :
         LET r == jira_search(cfg.JIRA_BASE, reply)
         IN /\ net' = IF url_rejected(cfg.JIRA_BASE) THEN net ELSE Append(net, "jira")
            /\ http' = IF url_rejected(cfg.JIRA_BASE) THEN http
                       ELSE Append(http, Exchange(reply))
            /\ error' = r.exc
            /\ pc' = IF r.exc = "None" THEN "zephyr" ELSE pc
            /\ open_blockers' = IF r.exc = "None" THEN r.val ELSE open_blockers
    /\ UNCHANGED <<env, today_utc, cfg, zephyr_data, defects_today, executions,
                   status_counts, html_body, msg, session, opened, sent>>

\* line 141
GetTestExecutions ==
    /\ At("zephyr")
    /\ \E reply \in ZephyrReplies :
         LET r == zephyr_get_test_executions(reply)
         IN /\ net' = Append(net, "zephyr")
            /\ http' = Append(http, Exchange(reply))
            /\ zephyr_data' = IF http_error(reply) = "None" THEN reply.body
                              ELSE zephyr_data
            /\ error' = r.exc
            /\ pc' = IF r.exc = "None" THEN "aggregate" ELSE pc
            /\ executions' = IF r.exc = "None" THEN r.val ELSE executions
    /\ UNCHANGED <<env, today_utc, cfg, defects_today, open_blockers,
                   status_counts, html_body, msg, session, opened, sent>>

\* line 142
Aggregate ==
    /\ At("aggregate")
    /\ LET r == tally(executions)
       IN /\ error' = r.exc
          /\ pc' = IF r.exc = "None" THEN "render" ELSE pc
          /\ status_counts' = IF r.exc = "None" THEN r.val ELSE status_counts
    /\ UNCHANGED <<env, today_utc, cfg, net, http, zephyr_data, defects_today,
                   open_blockers, executions, html_body, msg, session, opened,
                   sent>>

\* today_utc.isoformat(), line 144
today_str == today_utc

\* the f-string of lines 146-177, as the values of its replacement fields
render_html(rows_today, rows_blockers) ==
    [title |-> <<"Daily QA Report ", EmDash, " ", today_str,
                 " (Project: ", cfg.PROJECT_KEY, ")">>,
     total |-> len(executions),
     pass |-> counts_get(status_counts, "Pass"),
     fail |-> counts_get(status_counts, "Fail"),
     blocked |-> counts_get(status_counts, "Blocked"),
     not_executed |-> counts_get(status_counts, "Not Executed"),
     unknown |-> counts_get(status_counts, "Unknown"),
     defects_count |-> Len(defects_today),
     defects_table |-> to_table(rows_today, IssueHeaders),
     blockers_count |-> Len(open_blockers),
     blockers_table |-> to_table(rows_blockers, IssueHeaders),
     footer |-> <<cfg.JIRA_BASE>> \o start_iso \o end_iso \o <<cfg.SMTP_USER>>]

\* lines 144-177
Render ==
    /\ At("render")
    /\ LET r1 == jira_rows(cfg.JIRA_BASE, defects_today)
           r2 == jira_rows(cfg.JIRA_BASE, open_blockers)
           ok == r1.exc = "None" /\ r2.exc = "None"
       IN /\ error' = IF ok THEN "None" ELSE "AttributeError"
          /\ pc' = IF ok THEN "compose" ELSE pc
          /\ html_body' = IF ok THEN render_html(r1.val, r2.val) ELSE html_body
    /\ UNCHANGED <<env, today_utc, cfg, net, http, zephyr_data, defects_today,
                   open_blockers, executions, status_counts, msg, session,
                   opened, sent>>

\* [addr.strip() for addr in MAIL_TO.split(",")], line 184, on the values the
\* model gives MAIL_TO
recipients(mail_to) ==
    IF mail_to = "a@x.com, b@y.com" THEN <<"a@x.com", "b@y.com">> ELSE <<mail_to>>

\* f"Daily QA Report - {today_str} (CAM)", line 182
subject == <<"Daily QA Report ", EmDash, " ", today_str, " (", "CAM", ")">>

\* lines 181-187
Compose ==
    /\ At("compose")
    /\ msg' = [Subject |-> subject,
               From |-> cfg.MAIL_FROM,
               To |-> recipients(cfg.MAIL_TO),
               content |-> "This email contains HTML content. Please use an HTML-capable client.",
               html |-> html_body]
    /\ pc' = "connect"
    /\ UNCHANGED <<env, today_utc, error, cfg, net, http, zephyr_data,
                   defects_today, open_blockers, executions, status_counts,
                   html_body, session, opened, sent>>

(***************************************************************************)
(* The SMTP session, lines 189-192.                                        *)
(***************************************************************************)
\* smtplib.SMTP(host, port) connects only when host is not empty
connects(host) == host # ""

\* what the constructor's connect can meet: the greeting 220, a connection
\* the server answers with another code, no connection at all
ConnectOutcomes == {"220", "554", "refused"}

\* leaving the block without closing the session
smtp_exit_leak(s) == s

\* SMTP.__exit__: QUIT and close(); it runs when the with block is left,
\* normally or by an exception
smtp_exit(s) == IF s = "open" THEN "closed" ELSE s

\* line 189: the constructor and __enter__
SmtpConnect ==
    /\ At("connect")
    /\ \E o \in ConnectOutcomes :
         IF ~connects(cfg.SMTP_HOST)
         THEN /\ pc' = "starttls"
              /\ UNCHANGED <<error, net, session, opened>>
         ELSE /\ net' = Append(net, "smtp")
              /\ opened' = IF o = "refused" THEN opened ELSE opened + 1
              \* on a greeting other than 220 the constructor closes the socket
              /\ session' = IF o = "220" THEN "open"
                            ELSE IF o = "554" THEN "closed" ELSE session
              /\ error' = IF o = "220" THEN "None"
                          ELSE IF o = "554" THEN "SMTPConnectError" ELSE "OSError"
              /\ pc' = IF o = "220" THEN "starttls" ELSE pc
    /\ UNCHANGED <<env, today_utc, cfg, http, zephyr_data, defects_today,
                   open_blockers, executions, status_counts, html_body, msg, sent>>

\* one command of the with block: it succeeds only on an open session, and
\* an exception leaves the block through __exit__
SmtpStep(here, next, exc) ==
    /\ At(here)
    /\ \E ok \in BOOLEAN :
         IF session = "open" /\ ok
         THEN /\ pc' = next
              /\ sent' = (sent \/ here = "send")
              /\ UNCHANGED <<error, session>>
         ELSE /\ pc' = pc
              /\ error' = IF session = "open" THEN exc ELSE "SMTPServerDisconnected"
              /\ session' = smtp_exit(session)
              /\ UNCHANGED sent
    /\ UNCHANGED <<env, today_utc, cfg, net, http, zephyr_data, defects_today,
                   open_blockers, executions, status_counts, html_body, msg, opened>>

\* line 190
StartTls == SmtpStep("starttls", "login", "SMTPException")

\* line 191
Login == SmtpStep("login", "send", "SMTPAuthenticationError")

\* line 192
SendMessage == SmtpStep("send", "quit", "SMTPRecipientsRefused")

\* the end of the with block of line 189: __exit__ sends QUIT, closes the
\* session in any case, and raises when the server does not answer 221
SmtpQuit ==
    /\ At("quit")
    /\ session' = smtp_exit(session)
    /\ \E code \in {"221", "421"} :
         /\ pc' = IF code = "221" THEN "done" ELSE pc
         /\ error' = IF code = "221" THEN "None" ELSE "SMTPResponseException"
    /\ UNCHANGED <<env, today_utc, cfg, net, http, zephyr_data,
                   defects_today, open_blockers, executions, status_counts,
                   html_body, msg, opened, sent>>

Next ==
    \/ LoadConfig
    \/ SearchDefectsToday
    \/ SearchOpenBlockers
    \/ GetTestExecutions
    \/ Aggregate
    \/ Render
    \/ Compose
    \/ SmtpConnect
    \/ StartTls
    \/ Login
    \/ SendMessage
    \/ SmtpQuit

Spec == Init /\ [][Next]_vars

(***************************************************************************)
(* The aggregator and the renderer on their own: the run is started at the *)
(* stage, after a configuration and three queries that succeeded, with the *)
(* stage's input drawn from a wider set than a full run explores.          *)
(***************************************************************************)
FullEnv == [n \in Required \cup {"PROJECT_KEY"} |-> EnvValue[n]]

OkExchange == [conn |-> TRUE, status |-> 200]

Executions ==
    {ExecutionNoStatus, Execution(SNull), Execution(SStr("")),
     Execution(SStr("Pass")), Execution(SStr("Fail")), Execution(SStr("Unknown"))}

TallyInputs ==
    {JArray(s) : s \in SeqsUpTo(Executions, MaxTally)}
    \cup {JDict({}, <<>>), JDict({"values"}, <<>>)}

Issues ==
    {Issue(k, sm, a) :
        k \in {"XYZ-1", "XYZ-2"},
        sm \in {JNull, JText(<<"a", "<", "b">>)},
        a \in {JNull, JObj(TRUE, <<"Ann">>), JObj(FALSE, <<>>)}}
    \cup {IssueNoAssignee(k, sm) :
        k \in {"XYZ-1", "XYZ-2"},
        sm \in {JNull, JText(<<"a", "<", "b">>)}}

InitAfterQueries ==
    /\ env = FullEnv
    /\ today_utc \in Dates
    /\ error = "None"
    /\ cfg = Config(FullEnv)
    /\ net = <<"jira", "jira", "zephyr">>
    /\ http = <<OkExchange, OkExchange, OkExchange>>
    /\ html_body = NoText
    /\ msg = NoText
    /\ session = "none"
    /\ opened = 0
    /\ sent = FALSE

InitTally ==
    /\ InitAfterQueries
    /\ pc = "aggregate"
    /\ defects_today = <<>>
    /\ open_blockers = <<>>
    /\ executions \in TallyInputs
    /\ zephyr_data = IF executions.kind = "array"
                     THEN JDict({"executions"}, executions.elems)
                     ELSE executions
    /\ status_counts = EmptyCounter

NextTally == Aggregate

SpecTally == InitTally /\ [][NextTally]_vars

InitRender ==
    /\ InitAfterQueries
    /\ pc = "render"
    /\ defects_today \in SeqsUpTo(Issues, MaxRows)
    /\ open_blockers \in SeqsUpTo(PipelineIssues, MaxIssues)
    /\ executions = JArray(<<>>)
    /\ zephyr_data = JDict({"executions"}, <<>>)
    /\ status_counts = EmptyCounter

NextRender == Render

SpecRender == InitRender /\ [][NextRender]_vars

(***************************************************************************)
(* Properties.                                                             *)
(***************************************************************************)
StageOrder == <<"config", "defects", "blockers", "zephyr", "aggregate", "render",
                "compose", "connect", "starttls", "login", "send", "quit", "done">>

StageNo(p) == CHOOSE i \in DOMAIN StageOrder : StageOrder[i] = p

\* the run has got past `stage`
Completed(stage) == StageNo(pc) > StageNo(stage)

\* the run is over: it reached the end of the script or an exception ended it
Ended == pc = "done" \/ error # "None"

MissingRequired == \E n \in Required : n \notin DOMAIN env

NoNetwork == net = <<>> /\ http = <<>> /\ session = "none" /\ opened = 0

\* C1: when a required variable is absent from the environment the run ends
\* in the configuration stage with a lookup error, and no Jira request, no
\* Zephyr request and no SMTP connection is ever made.
C1_FailFastOnMissingKey ==
    MissingRequired =>
        /\ NoNetwork
        /\ pc = "config"
        /\ error \in {"None", "KeyError", "ValueError"}
        /\ cfg = NoConfig

C1_Witness == MissingRequired /\ error = "KeyError" /\ "JIRA_BASE" \in DOMAIN env

Success(x) == x.conn /\ x.status >= 200 /\ x.status < 300

IsPrefix(a, b) == Len(a) <= Len(b) /\ a = SubSeq(b, 1, Len(a))

\* C2: the message is sent, and a mail session opened, only after the three
\* queries succeeded in the order defects, blockers, executions; a query that
\* fails is the last request of the run, which ends there with no mail
\* session and no message sent.
C2_AllOrNothing ==
    /\ IsPrefix(net, <<"jira", "jira", "zephyr", "smtp">>)
    /\ (sent \/ opened > 0 \/ session # "none" \/ Completed("zephyr")) =>
          /\ Len(http) = 3
          /\ \A i \in 1..3 : Success(http[i])
    /\ \A i \in DOMAIN http :
          ~Success(http[i]) =>
              /\ i = Len(http)
              /\ Len(net) = i
              /\ Ended
              /\ pc = StageOrder[i + 1]
              /\ session = "none" /\ opened = 0 /\ ~sent

C2_Witness ==
    /\ Len(http) = 3 /\ Success(http[1]) /\ Success(http[2])
    /\ http[3].conn /\ http[3].status = 401
    /\ Ended /\ pc = "zephyr"

\* the execution listing was answered with success by one of the two
\* documented shapes
ZephyrListed ==
    /\ Len(http) = 3 /\ Success(http[3])
    /\ (zephyr_data.kind = "array" \/ "executions" \in zephyr_data.keys)

Labels(elems) == [i \in DOMAIN elems |-> status_label(elems[i])]

\* C3: a listing sent as a bare array and one sent as an object with the
\* array under "executions" are both accepted and normalised to the same
\* sequence, hence to the same tally and the same total.
C3_BothShapesAccepted ==
    ZephyrListed =>
        /\ ~(pc = "zephyr" /\ error # "None")
        /\ executions = JArray(zephyr_data.elems)
        /\ Completed("aggregate") =>
              /\ status_counts = Counter(Labels(zephyr_data.elems))
              /\ len(executions) = Len(zephyr_data.elems)

RECURSIVE SumOver(_, _)
SumOver(c, D) ==
    IF D = {} THEN 0
    ELSE LET k == CHOOSE x \in D : TRUE
         IN c[k] + SumOver(c, D \ {k})

\* C4: once the tally is built, its counts add up to the number of execution
\* records, the number shown as total.
C4_Conservation ==
    Completed("aggregate") =>
        /\ SumOver(status_counts, DOMAIN status_counts) = len(executions)
        /\ executions.kind = "array" =>
              SumOver(status_counts, DOMAIN status_counts) = Len(executions.elems)

C4_Witness ==
    /\ Completed("aggregate")
    /\ executions.kind = "array"
    /\ Len(executions.elems) = 3
    /\ \E k \in DOMAIN status_counts : status_counts[k] = 2

\* the record has no status member, or a null or empty one
NoStatus(e) ==
    \/ "status" \notin DOMAIN e
    \/ e["status"].t = "null"
    \/ e["status"].s = ""

\* C5: every record whose status is absent, null or empty is counted under
\* "Unknown" (together with the records labelled "Unknown"), and the tally
\* has no empty key.
C5_MissingStatusIsUnknown ==
    (Completed("aggregate") /\ executions.kind = "array") =>
        LET elems == executions.elems
            folded == {i \in DOMAIN elems : NoStatus(elems[i])}
            named == {i \in DOMAIN elems :
                         ~NoStatus(elems[i]) /\ elems[i]["status"].s = "Unknown"}
        IN /\ counts_get(status_counts, "Unknown")
                 = Cardinality(folded) + Cardinality(named)
           /\ "" \notin DOMAIN status_counts

C5_Witness ==
    /\ Completed("aggregate")
    /\ executions.kind = "array"
    /\ executions.elems = <<ExecutionNoStatus, Execution(SNull), Execution(SStr(""))>>
    /\ status_counts["Unknown"] = 3

RequiredPresentNonEmpty == \A n \in Required : n \in DOMAIN env /\ env[n] # ""

\* C6 as stated: a network call is made only with every required setting
\* present and non-empty.
C6_NonEmptyAtNetworkCall == net # <<>> => RequiredPresentNonEmpty

\* C6 as amended: a network call is made only with every required setting
\* present in the environment, and the configuration holds the value set,
\* which may be the empty string.
C6_PresentAtNetworkCall ==
    net # <<>> =>
        /\ \A n \in Required : n \in DOMAIN env
        /\ cfg = Config(env)
        /\ cfg.JIRA_EMAIL = env["JIRA_EMAIL"]
        /\ cfg.MAIL_TO = env["MAIL_TO"]

C6_Witness ==
    /\ net # <<>>
    /\ \E n \in Required : n \in DOMAIN env /\ env[n] = ""

\* the index of the first token `tok` of `toks`, 0 when there is none
IndexOf(toks, tok) ==
    IF \E i \in DOMAIN toks : toks[i] = tok
    THEN CHOOSE i \in DOMAIN toks :
            toks[i] = tok /\ \A j \in 1..(i - 1) : toks[j] # tok
    ELSE 0

Count(toks, tok) == Cardinality({i \in DOMAIN toks : toks[i] = tok})

\* the tokens strictly between the first `open` and the first `close`
Between(toks, open, close) ==
    LET a == IndexOf(toks, open)
        b == IndexOf(toks, close)
    IN IF a = 0 \/ b = 0 \/ b < a THEN <<>> ELSE SubSeq(toks, a + 1, b - 1)

\* reading a rendered sequence of elements <open> ... <close> back
RECURSIVE ParseElements(_, _, _)
ParseElements(toks, open, close) ==
    IF toks = <<>> \/ toks[1] # open \/ IndexOf(toks, close) = 0 THEN <<>>
    ELSE LET j == IndexOf(toks, close)
         IN <<SubSeq(toks, 2, j - 1)>>
            \o ParseElements(SubSeq(toks, j + 1, Len(toks)), open, close)

\* the body rows of a rendered table, each a sequence of cells
BodyRows(t) ==
    LET trs == ParseElements(Between(t, "<tbody>", "</tbody>"), "<tr>", "</tr>")
    IN [i \in DOMAIN trs |-> ParseElements(trs[i], "<td>", "</td>")]

HeaderCells(t) ==
    LET ths == ParseElements(Between(t, "<thead><tr>", "</tr></thead>"), "<th>", "</th>")
    IN [i \in DOMAIN ths |-> ths[i][1]]

\* `t` is the table element with one header row and exactly `rows` as body
TableShows(t, rows) ==
    /\ Len(t) > 0
    /\ t[1] = TableOpen /\ t[Len(t)] = "</table>"
    /\ Count(t, "<thead><tr>") = 1 /\ Count(t, "<tbody>") = 1
    /\ HeaderCells(t) = IssueHeaders
    /\ Count(t, "<tr>") = Len(rows)
    /\ BodyRows(t) = rows

\* C7: each rendered table is the table element with one header row and one
\* body row per input row, holding that row's cells in order; no rows give a
\* table with an empty body.
C7_TableRows ==
    Completed("render") =>
        /\ TableShows(html_body.defects_table,
                      jira_rows(cfg.JIRA_BASE, defects_today).val)
        /\ TableShows(html_body.blockers_table,
                      jira_rows(cfg.JIRA_BASE, open_blockers).val)
        /\ open_blockers = <<>> =>
              Between(html_body.blockers_table, "<tbody>", "</tbody>") = <<>>

C7_Witness ==
    /\ Completed("render")
    /\ Len(defects_today) = 2
    /\ defects_today[1].key # defects_today[2].key
    /\ open_blockers = <<>>
    /\ Len(BodyRows(html_body.defects_table)) = 2

\* C8: a mail session is opened at most once, and no run ends with it open:
\* it is closed after the send and after a failed STARTTLS, login or send.
C8_SessionClosed ==
    /\ opened <= 1
    /\ session # "none" => opened = 1
    /\ Ended => session # "open"
    /\ (Completed("connect") /\ ~Ended /\ connects(cfg.SMTP_HOST)) => session = "open"

C8_Witness ==
    /\ pc = "send" /\ error = "SMTPRecipientsRefused"
    /\ session = "closed" /\ opened = 1

\* C9: the subject of the message embeds the date of the run and the
\* configured project key, the key the report title shows.
C9_SubjectNamesProject ==
    Completed("compose") =>
        /\ msg.Subject = <<"Daily QA Report ", EmDash, " ", today_str,
                           " (", cfg.PROJECT_KEY, ")">>
        /\ msg.Subject[6] = msg.html.title[6]

Unassigned(issue) ==
    \/ "assignee" \notin DOMAIN issue.fields
    \/ issue.fields["assignee"].t = "null"

\* the renderer has run, to its end or to an exception
Rendered == Completed("render") \/ (pc = "render" /\ error # "None")

\* the table has a row of five cells for each issue, with the em dash as the
\* assignee cell of an issue without assignee
RowsFor(t, issues) ==
    LET rows == BodyRows(t)
    IN /\ Len(rows) = Len(issues)
       /\ \A i \in DOMAIN rows :
             /\ Len(rows[i]) = 5
             /\ Unassigned(issues[i]) => rows[i][5] = <<EmDash>>

\* C10: every issue gets a row of five cells, and an issue without assignee
\* (the member absent, or null) gets the em dash as its assignee cell instead
\* of ending the run.
C10_RowForEveryIssue ==
    Rendered =>
        /\ error = "None"
        /\ RowsFor(html_body.defects_table, defects_today)
        /\ RowsFor(html_body.blockers_table, open_blockers)

====
